---- MODULE Spec2Model ----
(***************************************************************************)
(* A model of Interpreter.py: the Lexer, the recursive-descent Parser, the *)
(* tree-walking Interpreter and the REPL loop of main().                   *)
(*                                                                         *)
(* Source text is a sequence of one-character strings (a Python str).      *)
(* Positions are 0-based as in the source; text[pos] of the source is      *)
(* text[pos + 1] here.                                                     *)
(***************************************************************************)
EXTENDS Integers, Sequences, FiniteSets, TLC

VARIABLES
    lexer,          \* SpecLex: the Lexer object, [text, pos]
    token,          \* SpecLex: what the last get_next_token call returned
    text,           \* main: the line most recently returned by input()
    lines,          \* main: the lines collected for the turn in progress
    open_braces,    \* main: the running brace balance of the turn in progress
    code,           \* main: the buffer the most recent step joined at line 396, <<>> if none
    global_scope,   \* main / Interpreter: the variable environment
    out,            \* what the most recent step wrote to standard output
    log,            \* the loop parts visit() went through in the most recent step, in order
    pc              \* main: where the driver is

vars == <<lexer, token, text, lines, open_braces, code, global_scope, out, log, pc>>

(***************************************************************************)
(* Characters.                                                             *)
(***************************************************************************)
LowerLetters ==
    <<"a","b","c","d","e","f","g","h","i","j","k","l","m",
      "n","o","p","q","r","s","t","u","v","w","x","y","z">>

UpperLetters ==
    <<"A","B","C","D","E","F","G","H","I","J","K","L","M",
      "N","O","P","Q","R","S","T","U","V","W","X","Y","Z">>

AsciiLetters ==
    {LowerLetters[i] : i \in DOMAIN LowerLetters} \cup {UpperLetters[i] : i \in DOMAIN UpperLetters}

AsciiDigits == <<"0","1","2","3","4","5","6","7","8","9">>

\* One letter outside ASCII (e with an acute accent) and one digit that is no
\* decimal digit (superscript two), each standing for its class.
E_ACUTE == "e-acute"

SUPERSCRIPT_TWO == "superscript-two"

\* What current_char and peek() hold past the end of the text.
NoChar == "None"

\* str.isspace()
isspace(c) == c \in {" ", "\n", "\t"}

\* str.isalpha(): every Unicode letter, not the underscore
isalpha(c) == c \in AsciiLetters \cup {E_ACUTE}

\* str.isdigit(): every Unicode digit
isdigit(c) == c \in {AsciiDigits[i] : i \in DOMAIN AsciiDigits} \cup {SUPERSCRIPT_TWO}

\* re.match(r'[a-zA-Z_]', c)
IdChar(c) == c \in AsciiLetters \cup {"_"}

\* str.lower() of one character
LowerChar(c) ==
    IF \E i \in DOMAIN UpperLetters : UpperLetters[i] = c
    THEN LowerLetters[CHOOSE i \in DOMAIN UpperLetters : UpperLetters[i] = c]
    ELSE c

\* str.lower()
lower(s) == [i \in DOMAIN s |-> LowerChar(s[i])]

\* int() of one decimal digit
DigitValue(c) == (CHOOSE i \in DOMAIN AsciiDigits : AsciiDigits[i] = c) - 1

(***************************************************************************)
(* Token and Lexer.                                                        *)
(***************************************************************************)
\* The value of a token built without one: Token('EOF').value is None.
None == <<"None">>

Token(type_, value) == [type |-> type_, value |-> value]

NoError == <<>>

\* What a Lexer call leaves behind: the token returned, the cursor after the
\* call, and the message of the exception raised (NoError when none was).
LexResult(tok, p, err) == [tok |-> tok, pos |-> p, err |-> err]

\* Lexer.keywords.get(word)
keywords(word) ==
    CASE word = <<"i","f">> -> "IF"
      [] word = <<"e","l","s","e">> -> "ELSE"
      [] word = <<"w","h","i","l","e">> -> "WHILE"
      [] word = <<"f","o","r">> -> "FOR"
      [] word = <<"p","r","i","n","t">> -> "PRINT"
      [] OTHER -> "None"

current_char(txt, p) == IF p >= Len(txt) THEN NoChar ELSE txt[p + 1]

peek(txt, p) == IF p + 1 >= Len(txt) THEN NoChar ELSE txt[p + 2]

RECURSIVE skip_whitespace(_, _)
skip_whitespace(txt, p) ==
    IF p < Len(txt) /\ isspace(txt[p + 1]) THEN skip_whitespace(txt, p + 1) ELSE p

\* The cursor after the while loop of Lexer.id.
RECURSIVE IdRunEnd(_, _)
IdRunEnd(txt, p) ==
    IF p < Len(txt) /\ IdChar(txt[p + 1]) THEN IdRunEnd(txt, p + 1) ELSE p

\* The cursor after the while loop of Lexer.number.
RECURSIVE NumberRunEnd(_, _)
NumberRunEnd(txt, p) ==
    IF p < Len(txt) /\ isdigit(txt[p + 1]) THEN NumberRunEnd(txt, p + 1) ELSE p

\* int(result) for a run of decimal digits
RECURSIVE int(_)
int(s) ==
    IF s = <<>> THEN 0 ELSE 10 * int(SubSeq(s, 1, Len(s) - 1)) + DigitValue(s[Len(s)])

id(txt, p) ==
    LET e == IdRunEnd(txt, p)
        result == SubSeq(txt, p + 1, e)
        token_type == keywords(lower(result))
    IN IF token_type # "None"
       THEN LexResult(Token(token_type, None), e, NoError)
       ELSE LexResult(Token("IDENTIFIER", result), e, NoError)

number(txt, p) ==
    LET e == NumberRunEnd(txt, p)
        result == SubSeq(txt, p + 1, e)
    IN IF \E i \in DOMAIN result : result[i] = SUPERSCRIPT_TWO
       THEN LexResult(Token("None", None), e, <<"invalid literal for int() with base 10">>)
       ELSE LexResult(Token("NUMBER", int(result)), e, NoError)

\* The dispatch of get_next_token on the first character: whether it calls id().
StartsId(c) == isalpha(c)

\* The single-character operators; "None" when the character is none of them.
OneCharToken(c) ==
    CASE c = "=" -> "EQUALS"
      [] c = "<" -> "LT"
      [] c = ">" -> "GT"
      [] c = "+" -> "PLUS"
      [] c = "-" -> "MINUS"
      [] c = "*" -> "MULTIPLY"
      [] c = "/" -> "DIVIDE"
      [] c = "(" -> "LPAREN"
      [] c = ")" -> "RPAREN"
      [] c = "{" -> "LBRACE"
      [] c = "}" -> "RBRACE"
      [] c = ";" -> "SEMI"
      [] OTHER -> "None"

\* The two-character operators; "None" when c is not the first character of one.
TwoCharToken(c) ==
    CASE c = "=" -> "EQ"
      [] c = "!" -> "NE"
      [] c = "<" -> "LE"
      [] c = ">" -> "GE"
      [] OTHER -> "None"

get_next_token(txt, pos) ==
    LET p == skip_whitespace(txt, pos)
        c == current_char(txt, p)
    IN IF p >= Len(txt) THEN LexResult(Token("EOF", None), p, NoError)
       ELSE IF StartsId(c) THEN id(txt, p)
       ELSE IF isdigit(c) THEN number(txt, p)
       ELSE IF TwoCharToken(c) # "None" /\ peek(txt, p) = "="
            THEN LexResult(Token(TwoCharToken(c), None), p + 2, NoError)
       ELSE IF OneCharToken(c) # "None"
            THEN LexResult(Token(OneCharToken(c), None), p + 1, NoError)
       ELSE LexResult(Token("None", None), p, <<"Invalid character">>)

(***************************************************************************)
(* Parser.  The parser's state is [tok, pos, err, node]: current_token,    *)
(* the cursor of its lexer, the message of the exception raised (NoError   *)
(* when none was) and the value the last parsing method returned.  Every   *)
(* method passes a state with an exception on unchanged, which is how the  *)
(* exception leaves the methods that called it.                            *)
(*                                                                         *)
(* self(<<"m">>, txt, P) is self.m() and self(<<"eat", t>>, txt, P) is     *)
(* self.eat(t), for the parser in state P over the text txt.               *)
(***************************************************************************)
\* A value bound to a name for the rest of a method; Rest is the rest.
With(value, Rest(_)) == Rest(value)

Raised(P) == P.err # NoError

Returns(P, node) == IF Raised(P) THEN P ELSE [P EXCEPT !.node = node]

\* Parser.__init__: the first token is read at construction.
Parser(txt) ==
    With(get_next_token(txt, 0), LAMBDA r :
    [tok |-> r.tok, pos |-> r.pos, err |-> r.err, node |-> <<>>])

RECURSIVE self(_, _, _)

eat(txt, P, token_type) ==
    IF P.tok.type = token_type
    THEN With(get_next_token(txt, P.pos), LAMBDA r :
         [P EXCEPT !.tok = r.tok, !.pos = r.pos, !.err = r.err])
    ELSE [P EXCEPT !.err = <<"Expected", token_type, "but got", P.tok.type>>]

BinOp(left, op, right) == [type |-> "BINOP", left |-> left, op |-> op, right |-> right]

factor(txt, P) ==
    CASE P.tok.type = "NUMBER" ->
           Returns(self(<<"eat", "NUMBER">>, txt, P),
                   [type |-> "NUMBER", value |-> P.tok.value])
      [] P.tok.type = "IDENTIFIER" ->
           Returns(self(<<"eat", "IDENTIFIER">>, txt, P),
                   [type |-> "IDENTIFIER", value |-> P.tok.value])
      [] P.tok.type = "LPAREN" ->
           With(self(<<"expression">>, txt, self(<<"eat", "LPAREN">>, txt, P)), LAMBDA expr :
           Returns(self(<<"eat", "RPAREN">>, txt, expr), expr.node))
      [] P.tok.type = "MINUS" ->
           With(self(<<"factor">>, txt, self(<<"eat", "MINUS">>, txt, P)), LAMBDA operand :
           Returns(operand, [type |-> "UNARYOP", op |-> "MINUS", expr |-> operand.node]))
      [] P.tok.type = "PLUS" ->
           With(self(<<"factor">>, txt, self(<<"eat", "PLUS">>, txt, P)), LAMBDA operand :
           Returns(operand, [type |-> "UNARYOP", op |-> "PLUS", expr |-> operand.node]))
      [] OTHER -> [P EXCEPT !.err = <<"Invalid factor">>]

\* The while loop of term, arithmetic and comparison: while current_token is
\* one of ops, eat it, parse the right operand with the method operand and
\* make left, which is P.node, the BINOP of the two.
RECURSIVE BinaryLoop(_, _, _, _)
BinaryLoop(txt, P, ops, operand) ==
    IF Raised(P) \/ P.tok.type \notin ops THEN P
    ELSE With(self(<<operand>>, txt, self(<<"eat", P.tok.type>>, txt, P)), LAMBDA right :
         BinaryLoop(txt, Returns(right, BinOp(P.node, P.tok, right.node)), ops, operand))

term(txt, P) ==
    BinaryLoop(txt, self(<<"factor">>, txt, P), {"MULTIPLY", "DIVIDE"}, "factor")

arithmetic(txt, P) ==
    BinaryLoop(txt, self(<<"term">>, txt, P), {"PLUS", "MINUS"}, "term")

comparison(txt, P) ==
    BinaryLoop(txt, self(<<"arithmetic">>, txt, P),
               {"EQ", "NE", "LT", "GT", "LE", "GE"}, "arithmetic")

expression(txt, P) == self(<<"comparison">>, txt, P)

\* The while loop of Parser.statements; stmts is the list built so far.
RECURSIVE StatementsLoop(_, _, _)
StatementsLoop(txt, P, stmts) ==
    IF Raised(P) THEN P
    ELSE IF P.tok.type = "RBRACE" THEN Returns(P, stmts)
    ELSE With(self(<<"statement">>, txt, P), LAMBDA stmt :
         StatementsLoop(txt, stmt, Append(stmts, stmt.node)))

statements(txt, P) == StatementsLoop(txt, P, <<>>)

assign_stmt(txt, P) ==
    With(self(<<"expression">>, txt,
              self(<<"eat", "EQUALS">>, txt, self(<<"eat", "IDENTIFIER">>, txt, P))),
         LAMBDA value :
    Returns(self(<<"eat", "SEMI">>, txt, value),
            [type |-> "ASSIGN", var_name |-> P.tok.value, value |-> value.node]))

print_stmt(txt, P) ==
    With(self(<<"expression">>, txt,
              self(<<"eat", "LPAREN">>, txt, self(<<"eat", "PRINT">>, txt, P))),
         LAMBDA expr :
    Returns(self(<<"eat", "SEMI">>, txt, self(<<"eat", "RPAREN">>, txt, expr)),
            [type |-> "PRINT", expr |-> expr.node]))

\* The '{' statements '}' of if_stmt, while_stmt and for_stmt.
Block(txt, P) ==
    With(self(<<"statements">>, txt, self(<<"eat", "LBRACE">>, txt, P)), LAMBDA body :
    Returns(self(<<"eat", "RBRACE">>, txt, body), body.node))

\* else_body is <<>> for None and <<stmts>> for a list of statements.
if_stmt(txt, P) ==
    With(self(<<"expression">>, txt,
              self(<<"eat", "LPAREN">>, txt, self(<<"eat", "IF">>, txt, P))),
         LAMBDA condition :
    With(Block(txt, self(<<"eat", "RPAREN">>, txt, condition)), LAMBDA body :
    IF ~Raised(body) /\ body.tok.type = "ELSE"
    THEN With(Block(txt, self(<<"eat", "ELSE">>, txt, body)), LAMBDA else_body :
         Returns(else_body,
                 [type |-> "IF", condition |-> condition.node, body |-> body.node,
                  else_body |-> <<else_body.node>>]))
    ELSE Returns(body,
                 [type |-> "IF", condition |-> condition.node, body |-> body.node,
                  else_body |-> <<>>])))

while_stmt(txt, P) ==
    With(self(<<"expression">>, txt,
              self(<<"eat", "LPAREN">>, txt, self(<<"eat", "WHILE">>, txt, P))),
         LAMBDA condition :
    With(Block(txt, self(<<"eat", "RPAREN">>, txt, condition)), LAMBDA body :
    Returns(body, [type |-> "WHILE", condition |-> condition.node, body |-> body.node])))

for_stmt(txt, P) ==
    With(self(<<"assign_stmt">>, txt,
              self(<<"eat", "LPAREN">>, txt, self(<<"eat", "FOR">>, txt, P))),
         LAMBDA init :
    With(self(<<"expression">>, txt, init), LAMBDA condition :
    With(self(<<"assign_stmt">>, txt, self(<<"eat", "SEMI">>, txt, condition)), LAMBDA update :
    With(Block(txt, self(<<"eat", "RPAREN">>, txt, update)), LAMBDA body :
    Returns(body,
            [type |-> "FOR", init |-> init.node, condition |-> condition.node,
             update |-> update.node, body |-> body.node])))))

statement(txt, P) ==
    CASE P.tok.type = "IF" -> self(<<"if_stmt">>, txt, P)
      [] P.tok.type = "WHILE" -> self(<<"while_stmt">>, txt, P)
      [] P.tok.type = "FOR" -> self(<<"for_stmt">>, txt, P)
      [] P.tok.type = "IDENTIFIER" -> self(<<"assign_stmt">>, txt, P)
      [] P.tok.type = "PRINT" -> self(<<"print_stmt">>, txt, P)
      [] OTHER -> self(<<"expression">>, txt, P)

\* The while loop of Parser.parse; on an exception node keeps the statements
\* parsed before it.
RECURSIVE ParseLoop(_, _, _)
ParseLoop(txt, P, stmts) ==
    IF Raised(P) THEN [P EXCEPT !.node = stmts]
    ELSE IF P.tok.type = "EOF" THEN Returns(P, stmts)
    ELSE With(self(<<"statement">>, txt, P), LAMBDA stmt :
         ParseLoop(txt, stmt, IF Raised(stmt) THEN stmts ELSE Append(stmts, stmt.node)))

\* A method called on the parser in state P; an exception raised before the
\* call has left the calling method already.
self(method, txt, P) ==
    IF Raised(P) THEN P
    ELSE CASE method[1] = "eat" -> eat(txt, P, method[2])
           [] method[1] = "factor" -> factor(txt, P)
           [] method[1] = "term" -> term(txt, P)
           [] method[1] = "arithmetic" -> arithmetic(txt, P)
           [] method[1] = "comparison" -> comparison(txt, P)
           [] method[1] = "expression" -> expression(txt, P)
           [] method[1] = "statements" -> statements(txt, P)
           [] method[1] = "assign_stmt" -> assign_stmt(txt, P)
           [] method[1] = "print_stmt" -> print_stmt(txt, P)
           [] method[1] = "if_stmt" -> if_stmt(txt, P)
           [] method[1] = "while_stmt" -> while_stmt(txt, P)
           [] method[1] = "for_stmt" -> for_stmt(txt, P)
           [] method[1] = "statement" -> statement(txt, P)
           [] method[1] = "parse" -> ParseLoop(txt, P, <<>>)

parse(txt, P) == self(<<"parse">>, txt, P)

(***************************************************************************)
(* Values.  A Python number is [t, n, d]: its type ("int", "bool" or       *)
(* "float") and its value n/d in lowest terms, d > 0.  A float is followed *)
(* exactly, which is what Python computes as long as the quotients are     *)
(* dyadic and small; the programs below divide by 0, 1, 2 and 4 only.      *)
(***************************************************************************)
IntValue(n) == [t |-> "int", n |-> n, d |-> 1]

BoolValue(b) == [t |-> "bool", n |-> IF b THEN 1 ELSE 0, d |-> 1]

Abs(n) == IF n < 0 THEN -n ELSE n

RECURSIVE Gcd(_, _)
Gcd(a, b) == IF b = 0 THEN a ELSE Gcd(b, a % b)

\* n/d, d # 0, in lowest terms with a positive denominator
Ratio(t, n, d) ==
    LET g == Gcd(Abs(n), Abs(d))
        s == IF d < 0 THEN -1 ELSE 1
    IN [t |-> t, n |-> s * (n \div g), d |-> s * (d \div g)]

\* The type of left + right, left - right, left * right.
ArithType(left, right) == IF left.t = "float" \/ right.t = "float" THEN "float" ELSE "int"

\* Python's truth value of a number
Truthy(v) == v.n # 0

Less(left, right) == left.n * right.d < right.n * left.d

Same(left, right) == left.n * right.d = right.n * left.d

(***************************************************************************)
(* Interpreter: expressions.  The result is [val, err].                    *)
(***************************************************************************)
Value(v) == [val |-> v, err |-> NoError]

Exception(msg) == [val |-> IntValue(0), err |-> msg]

ZeroDivisionError == <<"Division by zero">>

NameError(var_name) == <<"Variable '">> \o var_name \o <<"' is not defined">>

visit_number(node) == Value(IntValue(node.value))

visit_identifier(node, scope) ==
    IF node.value \in DOMAIN scope THEN Value(scope[node.value])
    ELSE Exception(NameError(node.value))

\* The operator dispatch of visit_binop, both operands evaluated.
ApplyBinOp(op_type, left, right) ==
    CASE op_type = "PLUS" ->
           Value(Ratio(ArithType(left, right), left.n * right.d + right.n * left.d, left.d * right.d))
      [] op_type = "MINUS" ->
           Value(Ratio(ArithType(left, right), left.n * right.d - right.n * left.d, left.d * right.d))
      [] op_type = "MULTIPLY" ->
           Value(Ratio(ArithType(left, right), left.n * right.n, left.d * right.d))
      [] op_type = "DIVIDE" ->
           IF right.n = 0 THEN Exception(ZeroDivisionError)
           ELSE Value(Ratio("float", left.n * right.d, left.d * right.n))
      [] op_type = "EQ" -> Value(BoolValue(Same(left, right)))
      [] op_type = "NE" -> Value(BoolValue(~Same(left, right)))
      [] op_type = "LT" -> Value(BoolValue(Less(left, right)))
      [] op_type = "GT" -> Value(BoolValue(Less(right, left)))
      [] op_type = "LE" -> Value(BoolValue(~Less(right, left)))
      [] op_type = "GE" -> Value(BoolValue(~Less(left, right)))
      [] OTHER -> Exception(<<"Unsupported binary operator">>)

visit_unaryop(node, expr_value) ==
    IF node.op = "MINUS"
    THEN Value(Ratio(IF expr_value.t = "float" THEN "float" ELSE "int",
                     -expr_value.n, expr_value.d))
    ELSE Value(Ratio(IF expr_value.t = "float" THEN "float" ELSE "int",
                     expr_value.n, expr_value.d))

\* visit() on an expression node
RECURSIVE evaluate(_, _)
evaluate(node, scope) ==
    CASE node.type = "NUMBER" -> visit_number(node)
      [] node.type = "IDENTIFIER" -> visit_identifier(node, scope)
      [] node.type = "UNARYOP" ->
           With(evaluate(node.expr, scope), LAMBDA expr_value :
           IF expr_value.err # NoError THEN expr_value
           ELSE visit_unaryop(node, expr_value.val))
      [] node.type = "BINOP" ->
           With(evaluate(node.left, scope), LAMBDA left :
           IF left.err # NoError THEN left
           ELSE With(evaluate(node.right, scope), LAMBDA right :
                IF right.err # NoError THEN right
                ELSE ApplyBinOp(node.op.type, left.val, right.val)))

(***************************************************************************)
(* Interpreter: statements.  The state of a walk is [scope, out, log,      *)
(* err]: global_scope, the values print() has written, the loop parts      *)
(* visited and the message of the exception raised (NoError when none      *)
(* was).  Every visit passes a state with an exception on unchanged.       *)
(***************************************************************************)
\* How many iterations of one loop a walk is followed for.
MaxIter == 4

\* A walk cut off at MaxIter iterations: interpret() has not returned.
StillRunning == <<"interpret() has not returned">>

\* One loop part visited: the nesting depth of its loop, the part, and for a
\* condition its truth value ("T", "F", or "E" when evaluating it raised).
Visited(depth, part, res) == [depth |-> depth, part |-> part, res |-> res]

Logged(S, depth, part, res) == [S EXCEPT !.log = Append(@, Visited(depth, part, res))]

Raise(S, msg) == [S EXCEPT !.err = msg]

Truth(c) == IF c.err # NoError THEN "E" ELSE IF Truthy(c.val) THEN "T" ELSE "F"

\* scope[var_name] = value
Bind(scope, var_name, value) ==
    [n \in DOMAIN scope \cup {var_name} |-> IF n = var_name THEN value ELSE scope[n]]

\* visit_assign binding the name before the value is known to exist.
VisitAssignEager(node, S) ==
    With(evaluate(node.value, S.scope), LAMBDA value :
    IF value.err # NoError
    THEN Raise([S EXCEPT !.scope = Bind(S.scope, node.var_name, value.val)], value.err)
    ELSE [S EXCEPT !.scope = Bind(S.scope, node.var_name, value.val)])

visit_assign(node, S) ==
    With(evaluate(node.value, S.scope), LAMBDA value :
    IF value.err # NoError THEN Raise(S, value.err)
    ELSE [S EXCEPT !.scope = Bind(S.scope, node.var_name, value.val)])

visit_print(node, S) ==
    With(evaluate(node.expr, S.scope), LAMBDA value :
    IF value.err # NoError THEN Raise(S, value.err)
    ELSE [S EXCEPT !.out = Append(@, value.val)])

\* visit() on an expression used as a statement: the value is dropped.
VisitExpression(node, S) ==
    With(evaluate(node, S.scope), LAMBDA value :
    IF value.err # NoError THEN Raise(S, value.err) ELSE S)

RECURSIVE visit(_, _, _)
RECURSIVE VisitAll(_, _, _)
RECURSIVE WhileLoop(_, _, _, _)
RECURSIVE ForLoop(_, _, _, _)

\* for stmt in stmts: self.visit(stmt)
VisitAll(stmts, S, depth) ==
    IF S.err # NoError \/ stmts = <<>> THEN S
    ELSE VisitAll(Tail(stmts), visit(Head(stmts), S, depth), depth)

visit_if(node, S, depth) ==
    With(evaluate(node.condition, S.scope), LAMBDA condition_value :
    IF condition_value.err # NoError THEN Raise(S, condition_value.err)
    ELSE IF Truthy(condition_value.val) THEN VisitAll(node.body, S, depth)
    ELSE IF node.else_body # <<>> /\ node.else_body[1] # <<>>
         THEN VisitAll(node.else_body[1], S, depth)
    ELSE S)

\* The condition c of a loop tested in the walk S, which becomes `tested`:
\* the loop ends when c raises or is false, is followed no further when no
\* iteration is left, and goes through Iteration(tested) otherwise.
Test(S, depth, part, c, left, Iteration(_)) ==
    With(Logged(S, depth, part, Truth(c)), LAMBDA tested :
    IF c.err # NoError THEN Raise(tested, c.err)
    ELSE IF ~Truthy(c.val) THEN tested
    ELSE IF left = 0 THEN Raise(tested, StillRunning)
    ELSE Iteration(tested))

\* The while loop of visit_while with `left` iterations still followed.
WhileLoop(node, S, depth, left) ==
    IF S.err # NoError THEN S
    ELSE Test(S, depth, "while.condition", evaluate(node.condition, S.scope), left,
              LAMBDA tested :
              WhileLoop(node,
                        VisitAll(node.body, Logged(tested, depth, "while.body", "-"), depth + 1),
                        depth, left - 1))

visit_while(node, S, depth) == WhileLoop(node, S, depth, MaxIter)

\* A loop part visited in the walk S unless an exception has been raised.
Part(S, depth, part) == IF S.err # NoError THEN S ELSE Logged(S, depth, part, "-")

\* visit_for with the update run before the body instead of after it.
ForLoopUpdateFirst(node, S, depth, left) ==
    IF S.err # NoError THEN S
    ELSE Test(S, depth, "for.condition", evaluate(node.condition, S.scope), left,
              LAMBDA tested :
              ForLoop(node,
                      VisitAll(node.body,
                               Part(visit(node.update, Part(tested, depth, "for.update"),
                                          depth + 1),
                                    depth, "for.body"),
                               depth + 1),
                      depth, left - 1))

\* The while loop of visit_for with `left` iterations still followed.
ForLoop(node, S, depth, left) ==
    IF S.err # NoError THEN S
    ELSE Test(S, depth, "for.condition", evaluate(node.condition, S.scope), left,
              LAMBDA tested :
              ForLoop(node,
                      visit(node.update,
                            Part(VisitAll(node.body, Part(tested, depth, "for.body"),
                                          depth + 1),
                                 depth, "for.update"),
                            depth + 1),
                      depth, left - 1))

visit_for(node, S, depth) ==
    ForLoop(node, visit(node.init, Logged(S, depth, "for.init", "-"), depth + 1), depth, MaxIter)

\* visit() on a statement node; depth is the depth of the loop to be entered next
visit(node, S, depth) ==
    IF S.err # NoError THEN S
    ELSE CASE node.type = "IF" -> visit_if(node, S, depth)
           [] node.type = "WHILE" -> visit_while(node, S, depth)
           [] node.type = "FOR" -> visit_for(node, S, depth)
           [] node.type = "ASSIGN" -> visit_assign(node, S)
           [] node.type = "PRINT" -> visit_print(node, S)
           [] OTHER -> VisitExpression(node, S)

Walk(scope) == [scope |-> scope, out |-> <<>>, log |-> <<>>, err |-> NoError]

\* interpret() undoing the turn's assignments when a statement raises.
InterpretAtomic(txt, scope) ==
    With(parse(txt, Parser(txt)), LAMBDA tree :
    IF Raised(tree) THEN Raise(Walk(scope), tree.err)
    ELSE With(VisitAll(tree.node, Walk(scope), 1), LAMBDA walk :
         IF walk.err \notin {NoError, StillRunning} THEN [walk EXCEPT !.scope = scope]
         ELSE walk))

\* interpret() visiting each statement as soon as it is parsed.
InterpretEager(txt, scope) ==
    With(parse(txt, Parser(txt)), LAMBDA tree :
    With(VisitAll(tree.node, Walk(scope), 1), LAMBDA walk :
    IF Raised(tree) /\ walk.err = NoError THEN Raise(walk, tree.err) ELSE walk))

\* Interpreter(Parser(Lexer(code)), global_scope).interpret(), lines 399-402
interpret(txt, scope) ==
    With(parse(txt, Parser(txt)), LAMBDA tree :
    IF Raised(tree) THEN Raise(Walk(scope), tree.err)
    ELSE VisitAll(tree.node, Walk(scope), 1))

(***************************************************************************)
(* Strings of main().                                                      *)
(***************************************************************************)
RECURSIVE lstrip(_)
lstrip(s) == IF s # <<>> /\ isspace(Head(s)) THEN lstrip(Tail(s)) ELSE s

RECURSIVE rstrip(_)
rstrip(s) == IF s # <<>> /\ isspace(s[Len(s)]) THEN rstrip(SubSeq(s, 1, Len(s) - 1)) ELSE s

\* str.strip()
strip(s) == rstrip(lstrip(s))

\* str.count(c)
count(s, c) == Cardinality({i \in DOMAIN s : s[i] = c})

\* str.endswith(c)
endswith(s, c) == s # <<>> /\ s[Len(s)] = c

\* '\n'.join(buf)
RECURSIVE join(_)
join(buf) ==
    IF buf = <<>> THEN <<>>
    ELSE IF Len(buf) = 1 THEN buf[1]
    ELSE buf[1] \o <<"\n">> \o join(Tail(buf))

EXIT == <<"e", "x", "i", "t">>

\* text.strip() == "exit", without the lower() of line 389
IsExitCaseSensitive(line) == strip(line) = EXIT

\* text.strip().lower() == "exit"
IsExit(line) == lower(strip(line)) = EXIT

\* The test of line 394: whether the turn is complete after reading `last`
Complete(balance, last) ==
    balance <= 0 /\ (strip(last) = <<>> \/ endswith(strip(last), ";") \/ strip(last) = <<"}">>)

(***************************************************************************)
(* Standard output: one record per line written.                           *)
(***************************************************************************)
\* print(value) of visit_print
Printed(v) == [kind |-> "print", val |-> v, msg |-> NoError]

\* print(f"Error: {e}") of main
ErrorLine(msg) == [kind |-> "Error", val |-> IntValue(0), msg |-> msg]

PrintedAll(vals) == [i \in DOMAIN vals |-> Printed(vals[i])]

(***************************************************************************)
(* main(): one turn.  The driver is at "input" (line 388, waiting for a    *)
(* line), at "execute" (line 399, with a complete buffer that is not       *)
(* blank), "running" (inside interpret(), which the model follows no       *)
(* further) or "exited" (returned).                                        *)
(***************************************************************************)
Outcome(scope, printed, visited, at) ==
    [scope |-> scope, out |-> printed, log |-> visited, pc |-> at]

\* The walk of a turn that went through, or that the model follows no further.
Through(walk) ==
    Outcome(walk.scope, PrintedAll(walk.out), walk.log,
            IF walk.err = StillRunning THEN "running" ELSE "input")

\* Lines 399-405 with the exception leaving main().
ExecuteUncaught(txt, scope) ==
    With(interpret(txt, scope), LAMBDA walk :
    IF walk.err \in {NoError, StillRunning} THEN Through(walk)
    ELSE Outcome(walk.scope, PrintedAll(walk.out), walk.log, "exited"))

\* Lines 399-405 with the Interpreter built without global_scope, so that each
\* turn starts from its own empty dictionary.
ExecuteFreshScope(txt, scope) ==
    With(interpret(txt, <<>>), LAMBDA walk :
    IF walk.err \in {NoError, StillRunning} THEN Through(walk)
    ELSE Outcome(walk.scope, Append(PrintedAll(walk.out), ErrorLine(walk.err)),
                 walk.log, "input"))

\* Lines 399-405: the turn's code is lexed, parsed and walked against
\* global_scope, which the walk mutates in place; an exception is caught at
\* line 404, reported, and the loop goes on.
Execute(txt, scope) ==
    With(interpret(txt, scope), LAMBDA walk :
    IF walk.err \in {NoError, StillRunning} THEN Through(walk)
    ELSE Outcome(walk.scope, Append(PrintedAll(walk.out), ErrorLine(walk.err)),
                 walk.log, "input"))

(***************************************************************************)
(* SpecLex: a Lexer over every short text of LexAlphabet, get_next_token   *)
(* called until it returns EOF or raises.                                  *)
(***************************************************************************)
\* The length of the longest text lexed.
MaxText == 3

LexAlphabet == {"i", "F", "x", "_", "1", " ", "=", "<", "$", E_ACUTE, SUPERSCRIPT_TWO}

LexTexts == UNION {[1..n -> LexAlphabet] : n \in 0..MaxText}

\* The value of a variable the specification at hand does not use.
Unused == "unused"

NoCall == [start |-> 0, tok |-> Token("None", None), err |-> NoError]

InitLex ==
    /\ lexer \in {[text |-> t, pos |-> 0] : t \in LexTexts}
    /\ token = NoCall
    /\ text = Unused /\ lines = Unused /\ open_braces = Unused /\ code = Unused
    /\ global_scope = Unused /\ out = Unused /\ log = Unused /\ pc = Unused

\* One call of get_next_token; token.start is the cursor the call started at.
NextToken ==
    /\ token.err = NoError
    /\ token.tok.type # "EOF"
    /\ \E r \in {get_next_token(lexer.text, lexer.pos)} :
          /\ lexer' = [lexer EXCEPT !.pos = r.pos]
          /\ token' = [start |-> lexer.pos, tok |-> r.tok, err |-> r.err]
    /\ UNCHANGED <<text, lines, open_braces, code, global_scope, out, log, pc>>

NextLex == NextToken

SpecLex == InitLex /\ [][NextLex]_vars

\* The characters of the language: letters, the underscore, decimal digits,
\* white space and the characters of the operators.
InLanguage(c) ==
    \/ IdChar(c)
    \/ c \in {AsciiDigits[i] : i \in DOMAIN AsciiDigits}
    \/ isspace(c)
    \/ c \in {"=", "!", "<", ">", "+", "-", "*", "/", "(", ")", "{", "}", ";"}

\* The end of the maximal run of letters and underscores that starts at p.
RECURSIVE WordEnd(_, _)
WordEnd(txt, p) ==
    IF p < Len(txt) /\ (txt[p + 1] \in AsciiLetters \/ txt[p + 1] = "_")
    THEN WordEnd(txt, p + 1) ELSE p

Called == token.tok.type # "None" \/ token.err # NoError

\* The first character the call looked at, white space skipped.
CallFirst == skip_whitespace(lexer.text, token.start)

\* C8: every call of get_next_token returns EOF at the end of the input, fails
\* with the invalid-character error, or returns a token with the cursor
\* advanced; a maximal run of letters and underscores, a leading underscore
\* included, yields its keyword or else a non-empty IDENTIFIER with the run as
\* written; a character outside the language fails with the invalid-character
\* error.
C8_LexerContract ==
    Called =>
      LET p == CallFirst
          e == WordEnd(lexer.text, p)
          word == SubSeq(lexer.text, p + 1, e)
      IN /\ \/ token.err = NoError /\ token.tok.type = "EOF" /\ lexer.pos = Len(lexer.text)
            \/ token.err = <<"Invalid character">>
            \/ token.err = NoError /\ token.tok.type # "EOF" /\ lexer.pos > token.start
         /\ e > p =>
              /\ token.err = NoError
              /\ lexer.pos = e
              /\ IF keywords(lower(word)) # "None"
                 THEN token.tok.type = keywords(lower(word))
                 ELSE token.tok.type = "IDENTIFIER" /\ token.tok.value = word /\ word # <<>>
         /\ (p < Len(lexer.text) /\ ~InLanguage(lexer.text[p + 1])) =>
              token.err = <<"Invalid character">>

(***************************************************************************)
(* SpecTurn: one turn, lines 399-405, for each program below against each  *)
(* small environment.                                                      *)
(***************************************************************************)
\* for (i = 0; i < 3; i = i + 1) { print(i); }
ForExample ==
    <<"f", "o", "r", " ", "(", "i", " ", "=", " ", "0", ";", " ", "i", " ", "<", " ", "3", ";",
      " ", "i", " ", "=", " ", "i", " ", "+", " ", "1", ")", " ", "{", " ", "p", "r", "i", "n",
      "t", "(", "i", ")", ";", " ", "}">>

\* for (i = a; i < b; i = i + 1;) { print(i); }
ForCount ==
    <<"f", "o", "r", " ", "(", "i", " ", "=", " ", "a", ";", " ", "i", " ", "<", " ", "b", ";",
      " ", "i", " ", "=", " ", "i", " ", "+", " ", "1", ";", ")", " ", "{", " ", "p", "r", "i",
      "n", "t", "(", "i", ")", ";", " ", "}">>

\* while (a < b) { print(a); a = a + 1; }
WhileCount ==
    <<"w", "h", "i", "l", "e", " ", "(", "a", " ", "<", " ", "b", ")", " ", "{", " ", "p", "r",
      "i", "n", "t", "(", "a", ")", ";", " ", "a", " ", "=", " ", "a", " ", "+", " ", "1", ";",
      " ", "}">>

\* for (i = 0; i < b; i = i + 1;) { while (a < i) { a = a + 1; } print(a); }
ForNested ==
    <<"f", "o", "r", " ", "(", "i", " ", "=", " ", "0", ";", " ", "i", " ", "<", " ", "b", ";",
      " ", "i", " ", "=", " ", "i", " ", "+", " ", "1", ";", ")", " ", "{", " ", "w", "h", "i",
      "l", "e", " ", "(", "a", " ", "<", " ", "i", ")", " ", "{", " ", "a", " ", "=", " ", "a",
      " ", "+", " ", "1", ";", " ", "}", " ", "p", "r", "i", "n", "t", "(", "a", ")", ";", " ",
      "}">>

\* while (a < 2) { a = a + 1; b = 4 / (2 - a); }
WhileBodyFails ==
    <<"w", "h", "i", "l", "e", " ", "(", "a", " ", "<", " ", "2", ")", " ", "{", " ", "a", " ",
      "=", " ", "a", " ", "+", " ", "1", ";", " ", "b", " ", "=", " ", "4", " ", "/", " ", "(",
      "2", " ", "-", " ", "a", ")", ";", " ", "}">>

\* for (i = 0; 2 / (b - i); i = i + 1;) { print(i); }
ForConditionFails ==
    <<"f", "o", "r", " ", "(", "i", " ", "=", " ", "0", ";", " ", "2", " ", "/", " ", "(", "b",
      " ", "-", " ", "i", ")", ";", " ", "i", " ", "=", " ", "i", " ", "+", " ", "1", ";", ")",
      " ", "{", " ", "p", "r", "i", "n", "t", "(", "i", ")", ";", " ", "}">>

\* for (i = 0; i < 2; i = i + 2 / (2 - a);) { print(i); }
ForUpdateFails ==
    <<"f", "o", "r", " ", "(", "i", " ", "=", " ", "0", ";", " ", "i", " ", "<", " ", "2", ";",
      " ", "i", " ", "=", " ", "i", " ", "+", " ", "2", " ", "/", " ", "(", "2", " ", "-", " ",
      "a", ")", ";", ")", " ", "{", " ", "p", "r", "i", "n", "t", "(", "i", ")", ";", " ", "}">>

\* while (1) { a = 1; }
WhileForever ==
    <<"w", "h", "i", "l", "e", " ", "(", "1", ")", " ", "{", " ", "a", " ", "=", " ", "1", ";",
      " ", "}">>

\* if (a) { for (i = 0; i < a; i = i + 1;) { b = i; } } else { while (b) { b = b - 1; } }
IfLoops ==
    <<"i", "f", " ", "(", "a", ")", " ", "{", " ", "f", "o", "r", " ", "(", "i", " ", "=", " ",
      "0", ";", " ", "i", " ", "<", " ", "a", ";", " ", "i", " ", "=", " ", "i", " ", "+", " ",
      "1", ";", ")", " ", "{", " ", "b", " ", "=", " ", "i", ";", " ", "}", " ", "}", " ", "e",
      "l", "s", "e", " ", "{", " ", "w", "h", "i", "l", "e", " ", "(", "b", ")", " ", "{", " ",
      "b", " ", "=", " ", "b", " ", "-", " ", "1", ";", " ", "}", " ", "}">>

\* a = 1; b = 1/0; c = 3;
PartialFailure ==
    <<"a", " ", "=", " ", "1", ";", " ", "b", " ", "=", " ", "1", "/", "0", ";", " ", "c", " ",
      "=", " ", "3", ";">>

\* a = 1; if (1) { c = 3; b = 1/0; }
FailsInsideIf ==
    <<"a", " ", "=", " ", "1", ";", " ", "i", "f", " ", "(", "1", ")", " ", "{", " ", "c", " ",
      "=", " ", "3", ";", " ", "b", " ", "=", " ", "1", "/", "0", ";", " ", "}">>

\* c = a; print(c); b = z; a = 1;
FailsOnName ==
    <<"c", " ", "=", " ", "a", ";", " ", "p", "r", "i", "n", "t", "(", "c", ")", ";", " ", "b",
      " ", "=", " ", "z", ";", " ", "a", " ", "=", " ", "1", ";">>

\* y = 10 / 0;
AssignDivZero ==
    <<"y", " ", "=", " ", "1", "0", " ", "/", " ", "0", ";">>

\* a = a / b;
AssignQuotient ==
    <<"a", " ", "=", " ", "a", " ", "/", " ", "b", ";">>

\* b = 1 + 4 / (2 - b);
AssignNested ==
    <<"b", " ", "=", " ", "1", " ", "+", " ", "4", " ", "/", " ", "(", "2", " ", "-", " ", "b",
      ")", ";">>

\* a = 1; b = ;
ParseErrorLater ==
    <<"a", " ", "=", " ", "1", ";", " ", "b", " ", "=", " ", ";">>

\* print(1); $
LexErrorLater ==
    <<"p", "r", "i", "n", "t", "(", "1", ")", ";", " ", "$">>

\* a = 2; if (1) { print(a);
EndsMidBlock ==
    <<"a", " ", "=", " ", "2", ";", " ", "i", "f", " ", "(", "1", ")", " ", "{", " ", "p", "r",
      "i", "n", "t", "(", "a", ")", ";">>

\* a = 1; b = 2²;
BadDigitLater ==
    <<"a", " ", "=", " ", "1", ";", " ", "b", " ", "=", " ", "2", "superscript-two", ";">>

\* x = 5; print(x);
AssignPrint ==
    <<"x", " ", "=", " ", "5", ";", " ", "p", "r", "i", "n", "t", "(", "x", ")", ";">>

\* print(4 / 2);
PrintQuotient ==
    <<"p", "r", "i", "n", "t", "(", "4", " ", "/", " ", "2", ")", ";">>

\* IF (1) { print(1); }
UpperIf ==
    <<"I", "F", " ", "(", "1", ")", " ", "{", " ", "p", "r", "i", "n", "t", "(", "1", ")", ";",
      " ", "}">>

TurnCodes ==
    {ForExample, ForCount, WhileCount, ForNested, WhileBodyFails,
     ForConditionFails, ForUpdateFails, WhileForever, IfLoops, PartialFailure,
     FailsInsideIf, FailsOnName, AssignDivZero, AssignQuotient, AssignNested,
     ParseErrorLater, LexErrorLater, EndsMidBlock, BadDigitLater, AssignPrint,
     PrintQuotient, UpperIf}

\* The largest value bound in an initial environment.
MaxInt == 2

\* The environments a turn starts from: a and b, each unbound or 0..MaxInt.
TurnScopes ==
    UNION {[names -> {IntValue(v) : v \in 0..MaxInt}] : names \in SUBSET {<<"a">>, <<"b">>}}

InitTurn ==
    /\ code \in TurnCodes
    /\ global_scope \in TurnScopes
    /\ out = <<>> /\ log = <<>>
    /\ pc = "execute"
    /\ lexer = Unused /\ token = Unused /\ text = Unused /\ lines = Unused
    /\ open_braces = Unused

ExecuteTurn ==
    /\ pc = "execute"
    /\ \E r \in {Execute(code, global_scope)} :
          /\ global_scope' = r.scope
          /\ out' = r.out
          /\ log' = r.log
          /\ pc' = r.pc
    /\ UNCHANGED <<lexer, token, text, lines, open_braces, code>>

NextTurn == ExecuteTurn

SpecTurn == InitTurn /\ [][NextTurn]_vars

(***************************************************************************)
(* Claims about one turn (SpecTurn).                                       *)
(***************************************************************************)
\* The step in which the turn's code is executed.
Executes == pc = "execute" /\ pc' # "execute"

Executed == pc # "execute"

\* The statements the turn's code parses to.
Tree == parse(code, Parser(code))

\* The walk of the first j statements of the turn against scope.
PrefixWalk(j, scope) == VisitAll(SubSeq(Tree.node, 1, j), Walk(scope), 1)

\* The turn parses and one of its statements raises a runtime error.
RuntimeFailure(scope) ==
    /\ ~Raised(Tree)
    /\ PrefixWalk(Len(Tree.node), scope).err \notin {NoError, StillRunning}

\* The index k of the first statement to raise.
FirstFailing(scope) ==
    CHOOSE k \in 1..Len(Tree.node) :
        /\ PrefixWalk(k, scope).err # NoError
        /\ PrefixWalk(k - 1, scope).err = NoError

\* The names a statement assigns to, at any depth.
RECURSIVE Targets(_)
RECURSIVE TargetsOfAll(_)
TargetsOfAll(stmts) == UNION {Targets(stmts[i]) : i \in DOMAIN stmts}

Targets(node) ==
    CASE node.type = "ASSIGN" -> {node.var_name}
      [] node.type = "IF" ->
           TargetsOfAll(node.body) \cup
           (IF node.else_body = <<>> THEN {} ELSE TargetsOfAll(node.else_body[1]))
      [] node.type = "WHILE" -> TargetsOfAll(node.body)
      [] node.type = "FOR" ->
           Targets(node.init) \cup Targets(node.update) \cup TargetsOfAll(node.body)
      [] OTHER -> {}

Compound(node) == node.type \in {"IF", "WHILE", "FOR"}

ErrorLines == {i \in DOMAIN out : out[i].kind = "Error"}

\* C2: the turn `for (i = 0; i < 3; i = i + 1) { print(i); }` writes 0, 1, 2 in
\* that order and reports no error.
C2_ForExampleOutput ==
    (Executed /\ code = ForExample) =>
        /\ pc = "input"
        /\ out = <<Printed(IntValue(0)), Printed(IntValue(1)), Printed(IntValue(2))>>

\* C3 as claimed: when statement k is the first of a turn to raise a runtime
\* error, the environment after the turn is the one statements 1..k-1 leave.
C3_PrefixOnly ==
    [][(Executes /\ RuntimeFailure(global_scope)) =>
          global_scope' = PrefixWalk(FirstFailing(global_scope) - 1, global_scope).scope]_vars

\* C3 as amended: when statement k is the first of a turn to raise a runtime
\* error, one error line is written, as the last line; the environment after
\* the turn is the one statements 1..k-1 leave when statement k is an
\* assignment, a print or an expression, and differs from it at most on the
\* names assigned inside statement k when that is an if, a while or a for.
C3_PartialFailureRetention ==
    [][(Executes /\ RuntimeFailure(global_scope)) =>
          LET k == FirstFailing(global_scope)
              before == PrefixWalk(k - 1, global_scope).scope
              inside == Targets(Tree.node[k])
          IN /\ pc' = "input"
             /\ out'[Len(out')].kind = "Error"
             /\ Cardinality({i \in DOMAIN out' : out'[i].kind = "Error"}) = 1
             /\ ~Compound(Tree.node[k]) => global_scope' = before
             /\ DOMAIN global_scope' \subseteq DOMAIN before \cup inside
             /\ \A n \in DOMAIN before :
                    /\ n \in DOMAIN global_scope'
                    /\ n \notin inside => global_scope'[n] = before[n]]_vars

\* `a = 1; b = 1/0; c = 3;` has run: a is 1, b and c are unbound, one error.
C3_Witness ==
    /\ Executed /\ code = PartialFailure
    /\ DOMAIN global_scope = {<<"a">>}
    /\ global_scope[<<"a">>] = IntValue(1)
    /\ out = <<ErrorLine(ZeroDivisionError)>>

\* C7: a turn that is one assignment whose right-hand side divides by zero
\* reports the division by zero and leaves the environment as it was.
C7_DivisionByZeroAssignsNothing ==
    [][(/\ Executes
        /\ ~Raised(Tree)
        /\ Len(Tree.node) = 1
        /\ Tree.node[1].type = "ASSIGN"
        /\ evaluate(Tree.node[1].value, global_scope).err = ZeroDivisionError) =>
          /\ global_scope' = global_scope
          /\ out' = <<ErrorLine(ZeroDivisionError)>>
          /\ pc' = "input"]_vars

\* `a = a / b;` has failed with b = 0 and a keeps its value 2; `y = 10 / 0;`
\* would leave y unbound in the same way.
C7_Witness ==
    /\ Executed /\ code = AssignQuotient
    /\ out = <<ErrorLine(ZeroDivisionError)>>
    /\ DOMAIN global_scope = {<<"a">>, <<"b">>}
    /\ global_scope[<<"a">>] = IntValue(2)
    /\ global_scope[<<"b">>] = IntValue(0)

\* C10: a turn whose code has a lex or parse error anywhere executes none of
\* its statements: the environment is unchanged and the error line is the
\* only output.
C10_ParseBeforeExecute ==
    [][(Executes /\ Raised(Tree)) =>
          /\ global_scope' = global_scope
          /\ out' = <<ErrorLine(Tree.err)>>
          /\ log' = <<>>
          /\ pc' = "input"]_vars

\* `a = 1; b = ;` has failed to parse and a, unbound before, is unbound still.
C10_Witness ==
    /\ Executed /\ code = ParseErrorLater
    /\ <<"a">> \notin DOMAIN global_scope
    /\ out = <<ErrorLine(<<"Invalid factor">>)>>

\* The entries of the log that belong to the loops at one nesting depth.
AtDepth(d) == SelectSeq(log, LAMBDA e : e.depth = d)

EndsLoop(e) == e.part \in {"for.condition", "while.condition"} /\ e.res = "F"

\* Whether loop part e may come right after loop part prev at the same depth.
MayFollow(prev, e) ==
    CASE e.part = "for.init" -> EndsLoop(prev)
      [] e.part = "for.condition" -> prev.part \in {"for.init", "for.update"}
      [] e.part = "for.body" -> prev.part = "for.condition" /\ prev.res = "T"
      [] e.part = "for.update" -> prev.part = "for.body"
      [] e.part = "while.condition" -> EndsLoop(prev) \/ prev.part = "while.body"
      [] e.part = "while.body" -> prev.part = "while.condition" /\ prev.res = "T"

Max(a, b) == IF a < b THEN b ELSE a

\* C9: at every nesting depth the loop parts are visited in the order
\* init, then condition, body, update, condition, body, update, ... for a For
\* and condition, body, condition, body, ... for a While: a body only right
\* after its condition was found true, an update only right after a body, a
\* condition of a For only right after init or update; a walk that returns
\* normally leaves each loop by a false condition.  For
\* `for (i = a; i < b; i = i + 1;) { print(i); }` that is the output a .. b-1
\* and i = max(a, b) at the end.
C9_LoopOrder ==
    Executed =>
      /\ \A d \in {log[i].depth : i \in DOMAIN log} :
            LET l == AtDepth(d)
            IN /\ l[1].part \in {"for.init", "while.condition"}
               /\ \A i \in 2..Len(l) : MayFollow(l[i - 1], l[i])
               /\ (pc = "input" /\ ErrorLines = {}) => EndsLoop(l[Len(l)])
      /\ \A i \in DOMAIN log : log[i].res = "E" => i = Len(log) /\ ErrorLines # {}
      /\ (code = ForCount /\ DOMAIN global_scope = {<<"a">>, <<"b">>, <<"i">>}) =>
            LET a == global_scope[<<"a">>].n
                b == global_scope[<<"b">>].n
            IN /\ pc = "input"
               /\ out = [j \in 1..(Max(a, b) - a) |-> Printed(IntValue(a + j - 1))]
               /\ global_scope[<<"i">>] = IntValue(Max(a, b))

\* The nested loops of ForNested have run with b = 2: the inner while was
\* entered once with a false condition and once with a true one.
C9_Witness ==
    /\ Executed /\ code = ForNested /\ pc = "input"
    /\ Len(AtDepth(1)) = 8
    /\ Len(AtDepth(2)) = 4
    /\ out = <<Printed(IntValue(0)), Printed(IntValue(1))>>

(***************************************************************************)
(* Spec: the REPL loop of main().  A step is everything between one        *)
(* input() and the next: the line is read and, when it completes the turn, *)
(* the turn is executed and reported.                                      *)
(***************************************************************************)
\* "a = 1;"
LineAssign ==
    <<"a", " ", "=", " ", "1", ";">>

\* "a = 2; b = 1/0; c = 3;"
LinePartialFailure ==
    <<"a", " ", "=", " ", "2", ";", " ", "b", " ", "=", " ", "1", "/", "0", ";", " ", "c", " ",
      "=", " ", "3", ";">>

\* "print(a); "
LinePrint ==
    <<"p", "r", "i", "n", "t", "(", "a", ")", ";", " ">>

\* "if (a) {"
LineIfOpen ==
    <<"i", "f", " ", "(", "a", ")", " ", "{">>

\* "while (1) {"
LineWhileOpen ==
    <<"w", "h", "i", "l", "e", " ", "(", "1", ")", " ", "{">>

\* "}"
LineClose ==
    <<"}">>

\* the empty line
LineEmpty == <<>>

\* "exit"
LineExit ==
    <<"e", "x", "i", "t">>

\* " EXIT "
LineExitUpper ==
    <<" ", "E", "X", "I", "T", " ">>

\* "c = 2; b = ;"
LineParseError ==
    <<"c", " ", "=", " ", "2", ";", " ", "b", " ", "=", " ", ";">>

\* "if (1) { a = 3; }"
LineOneLineIf ==
    <<"i", "f", " ", "(", "1", ")", " ", "{", " ", "a", " ", "=", " ", "3", ";", " ", "}">>

\* "a = 5; $;"
LineLexError ==
    <<"a", " ", "=", " ", "5", ";", " ", "$", ";">>

InputLines ==
    {LineAssign, LinePartialFailure, LinePrint, LineIfOpen, LineWhileOpen, LineClose,
     LineEmpty, LineExit, LineExitUpper, LineParseError, LineOneLineIf, LineLexError}

\* The most lines one turn is followed for.
MaxLines == 2

Init ==
    /\ global_scope = <<>>
    /\ lines = <<>>
    /\ open_braces = 0
    /\ pc = "input"
    /\ text = <<>> /\ code = <<>> /\ out = <<>> /\ log = <<>>
    /\ lexer = Unused /\ token = Unused

\* open_braces after line 392
Balance(line) == open_braces + count(line, "{") - count(line, "}")

\* Lines 388-390: the exit command returns from main().
Exit(line) ==
    /\ pc = "input"
    /\ IsExit(line)
    /\ text' = line
    /\ pc' = "exited"
    /\ code' = <<>> /\ out' = <<>> /\ log' = <<>>
    /\ UNCHANGED <<lines, open_braces, global_scope, lexer, token>>

\* Lines 388-395 without the break: the line is buffered and the turn goes on.
Collect(line) ==
    /\ pc = "input"
    /\ ~IsExit(line)
    /\ ~Complete(Balance(line), line)
    /\ Len(lines) < MaxLines
    /\ text' = line
    /\ lines' = Append(lines, line)
    /\ open_braces' = Balance(line)
    /\ code' = <<>> /\ out' = <<>> /\ log' = <<>>
    /\ UNCHANGED <<global_scope, pc, lexer, token>>

\* Lines 388-398 and back to 385: the turn is complete and blank.
Skip(line) ==
    /\ pc = "input"
    /\ ~IsExit(line)
    /\ Complete(Balance(line), line)
    /\ strip(join(Append(lines, line))) = <<>>
    /\ text' = line
    /\ code' = join(Append(lines, line))
    /\ lines' = <<>>
    /\ open_braces' = 0
    /\ out' = <<>> /\ log' = <<>>
    /\ UNCHANGED <<global_scope, pc, lexer, token>>

\* Lines 388-405 and back to 385: the turn is complete and is executed.
Run(line) ==
    /\ pc = "input"
    /\ ~IsExit(line)
    /\ Complete(Balance(line), line)
    /\ strip(join(Append(lines, line))) # <<>>
    /\ text' = line
    /\ code' = join(Append(lines, line))
    /\ \E r \in {Execute(join(Append(lines, line)), global_scope)} :
          /\ global_scope' = r.scope
          /\ out' = r.out
          /\ log' = r.log
          /\ pc' = r.pc
          /\ lines' = IF r.pc = "running" THEN Append(lines, line) ELSE <<>>
          /\ open_braces' = IF r.pc = "running" THEN Balance(line) ELSE 0
    /\ UNCHANGED <<lexer, token>>

Next ==
    \E line \in InputLines :
        \/ Exit(line)
        \/ Collect(line)
        \/ Skip(line)
        \/ Run(line)

Spec == Init /\ [][Next]_vars

(***************************************************************************)
(* Claims about the loop (Spec).  In a step text' is the line read, and     *)
(* code' the turn handed to execution, if one was.                          *)
(***************************************************************************)
\* The spellings of the exit command, white space around it aside.
ExitSpelling == <<{"e", "E"}, {"x", "X"}, {"i", "I"}, {"t", "T"}>>

ExitCommand(line) ==
    \E i \in 0..Len(line) :
        /\ i + 4 <= Len(line)
        /\ \A k \in 1..4 : line[i + k] \in ExitSpelling[k]
        /\ \A k \in DOMAIN line : (k <= i \/ k > i + 4) => line[k] \in {" ", "\n"}

\* The step reads a line that is not the exit command.
ReadsLine == pc = "input" /\ ~ExitCommand(text')

\* The step ends the turn: the buffer is handed on and collecting is over.
LeavesCollecting == lines' = <<>> \/ pc' = "running"

\* The step executes a turn.
RunsTurn == ReadsLine /\ LeavesCollecting /\ strip(code') # <<>>

\* '{' minus '}' over the lines of the turn, the one just read included.
BraceBalance ==
    count(join(Append(lines, text')), "{") - count(join(Append(lines, text')), "}")

\* C1: after a line that is not the exit command is read, the turn leaves
\* collecting if and only if its brace balance is <= 0 and the line, white
\* space around it aside, is empty, ends with ';' or ends with '}'.
C1_CompleteIff ==
    [][ReadsLine =>
          (LeavesCollecting <=>
             /\ BraceBalance <= 0
             /\ \/ strip(text') = <<>>
                \/ endswith(strip(text'), ";")
                \/ endswith(strip(text'), "}"))]_vars

\* C4: a turn whose execution raises a lex, parse or runtime error writes one
\* error line, as its last line and with the message of the exception, and
\* leaves the driver waiting for input with an empty buffer and a balance of
\* 0; the loop is left only by a step that reads the exit command.
C4_ErrorsAreCaught ==
    [][/\ (RunsTurn /\ interpret(code', global_scope).err \notin {NoError, StillRunning}) =>
             /\ pc' = "input"
             /\ lines' = <<>>
             /\ open_braces' = 0
             /\ out' # <<>>
             /\ out'[Len(out')] = ErrorLine(interpret(code', global_scope).err)
             /\ Cardinality({i \in DOMAIN out' : out'[i].kind = "Error"}) = 1
       /\ pc' = "exited" => (pc = "input" /\ ExitCommand(text'))]_vars

\* `a = 2; b = 1/0; c = 3;` has failed after binding a, and the driver waits
\* for the first line of the next turn.
C4_Witness ==
    /\ pc = "input"
    /\ code = LinePartialFailure
    /\ out = <<ErrorLine(ZeroDivisionError)>>
    /\ lines = <<>>
    /\ open_braces = 0
    /\ DOMAIN global_scope = {<<"a">>}
    /\ global_scope[<<"a">>] = IntValue(2)

\* C5: a line that spells the exit command in any case ends the loop in the
\* step that reads it, whatever is buffered: nothing is executed, the
\* environment is unchanged, nothing is written, and no step follows.
C5_ExitIsImmediate ==
    [][/\ pc # "exited"
       /\ (pc = "input" /\ ExitCommand(text')) =>
             /\ pc' = "exited"
             /\ global_scope' = global_scope
             /\ out' = <<>>
             /\ code' = <<>>
             /\ log' = <<>>]_vars

\* " EXIT " was read with `if (a) {` buffered and a bound.
C5_Witness ==
    /\ pc = "exited"
    /\ text = LineExitUpper
    /\ lines = <<LineIfOpen>>
    /\ open_braces = 1
    /\ DOMAIN global_scope # {}

\* The names assigned to by the turn a step executes; none if it executes none.
Assigned ==
    IF RunsTurn /\ ~Raised(parse(code', Parser(code')))
    THEN TargetsOfAll(parse(code', Parser(code')).node)
    ELSE {}

\* C6: the environment is empty at the start and is never reset: a step keeps
\* every bound name bound, and to the same value unless the turn it executes
\* assigns to the name, whether or not the turn ends with an error; a later
\* `print(a);` writes the value a was bound to.
C6_CrossTurnPersistence ==
    /\ global_scope = <<>>
    /\ [][/\ \A n \in DOMAIN global_scope :
                /\ n \in DOMAIN global_scope'
                /\ n \notin Assigned => global_scope'[n] = global_scope[n]
          /\ \A n \in DOMAIN global_scope' : n \in DOMAIN global_scope \/ n \in Assigned
          /\ (RunsTurn /\ code' = LinePrint /\ <<"a">> \in DOMAIN global_scope) =>
                out' = <<Printed(global_scope[<<"a">>])>>]_vars

\* `print(a);` has written the 2 that the failed turn `a = 2; b = 1/0; c = 3;`
\* bound a to.
C6_Witness ==
    /\ pc = "input"
    /\ code = LinePrint
    /\ out = <<Printed(IntValue(2))>>

====
